---- MODULE Spec2Model ----
(***************************************************************************)
(* Biomass co-firing transport optimisation (src/optimision.py): the       *)
(* script's pipeline  load -> build graph -> build model -> solve ->       *)
(* decode transport report -> decode cost report -> print objective, as a  *)
(* state machine over a finite family of input tables.                     *)
(*                                                                         *)
(* Numbers.  The script computes with Python floats.  Here every real      *)
(* quantity is an exact non-negative rational  [n |-> num, d |-> den]      *)
(* whose numerator and denominator are naturals of arbitrary size          *)
(* (little-endian sequences of base-10^4 limbs), because the program's     *)
(* constants (M = 1e12, the emission budget 0.65 * 3562837317, 1e-6) do    *)
(* not fit one machine integer scale.  An inequality of the script that    *)
(* has a negative side is written with the negative term moved across.     *)
(*                                                                         *)
(* src/optimision.py line 190 has an unbalanced parenthesis (the file does *)
(* not compile as it stands).  The model reads the O&MCost$ expression     *)
(* with the parenthesis closed after value(biomass_ratio[plant]); closing  *)
(* it after 6.8589 instead gives the same value.                           *)
(***************************************************************************)
EXTENDS Integers, Sequences, FiniteSets, TLC

\* ------------------------------------------------------------------------
\* Exact arithmetic on naturals of arbitrary size
\* ------------------------------------------------------------------------
Base == 10 ^ 4

RECURSIVE BigOf(_)
BigOf(n) == IF n = 0 THEN <<>> ELSE <<n % Base>> \o BigOf(n \div Base)

RECURSIVE BigAddC(_, _, _)
BigAddC(x, y, c) ==
    IF x = <<>> /\ y = <<>>
    THEN (IF c = 0 THEN <<>> ELSE <<c>>)
    ELSE LET a == IF x = <<>> THEN 0 ELSE Head(x)
             b == IF y = <<>> THEN 0 ELSE Head(y)
             s == a + b + c
         IN  <<s % Base>> \o BigAddC(IF x = <<>> THEN <<>> ELSE Tail(x),
                                     IF y = <<>> THEN <<>> ELSE Tail(y),
                                     s \div Base)

BigAdd(x, y) == BigAddC(x, y, 0)

RECURSIVE BigMulLimb(_, _, _)
BigMulLimb(x, k, c) ==
    IF x = <<>>
    THEN (IF c = 0 THEN <<>> ELSE <<c>>)
    ELSE LET s == Head(x) * k + c
         IN  <<s % Base>> \o BigMulLimb(Tail(x), k, s \div Base)

RECURSIVE BigMul(_, _)
BigMul(x, y) ==
    IF x = <<>> \/ y = <<>>
    THEN <<>>
    ELSE LET low  == IF Head(y) = 0 THEN <<>> ELSE BigMulLimb(x, Head(y), 0)
             rest == BigMul(x, Tail(y))
         IN  BigAdd(low, IF rest = <<>> THEN <<>> ELSE <<0>> \o rest)

RECURSIVE BigLeqFrom(_, _, _)
BigLeqFrom(x, y, i) ==
    IF i = 0 THEN TRUE
    ELSE IF x[i] # y[i] THEN x[i] < y[i]
    ELSE BigLeqFrom(x, y, i - 1)

BigLeq(x, y) ==
    IF Len(x) # Len(y) THEN Len(x) < Len(y) ELSE BigLeqFrom(x, y, Len(x))

RECURSIVE BigStrip(_)
BigStrip(x) ==
    IF x = <<>> THEN <<>>
    ELSE IF x[Len(x)] = 0 THEN BigStrip(SubSeq(x, 1, Len(x) - 1))
    ELSE x

RECURSIVE BigSubB(_, _, _)
BigSubB(x, y, b) ==
    IF x = <<>> THEN <<>>
    ELSE LET s == Head(x) - (IF y = <<>> THEN 0 ELSE Head(y)) - b
         IN  <<IF s < 0 THEN s + Base ELSE s>>
             \o BigSubB(Tail(x), IF y = <<>> THEN <<>> ELSE Tail(y),
                        IF s < 0 THEN 1 ELSE 0)

\* x - y for x >= y
BigSub(x, y) == BigStrip(BigSubB(x, y, 0))

\* ------------------------------------------------------------------------
\* Exact non-negative rationals
\* ------------------------------------------------------------------------
Rat(p, q) == [n |-> BigOf(p), d |-> BigOf(q)]
Num(p) == Rat(p, 1)
\* the decimal literal p * 10^-k
Dec(p, k) == Rat(p, 10 ^ k)

RAdd(a, b) == [n |-> BigAdd(BigMul(a.n, b.d), BigMul(b.n, a.d)), d |-> BigMul(a.d, b.d)]
RMul(a, b) == [n |-> BigMul(a.n, b.n), d |-> BigMul(a.d, b.d)]
\* a / b for b # 0
RDiv(a, b) == [n |-> BigMul(a.n, b.d), d |-> BigMul(a.d, b.n)]
\* a - b for a >= b
RSub(a, b) == [n |-> BigSub(BigMul(a.n, b.d), BigMul(b.n, a.d)), d |-> BigMul(a.d, b.d)]
RLeq(a, b) == BigLeq(BigMul(a.n, b.d), BigMul(b.n, a.d))
REq(a, b) == BigMul(a.n, b.d) = BigMul(b.n, a.d)
RLt(a, b) == ~RLeq(b, a)

\* ------------------------------------------------------------------------
\* Input tables (lines 15-29 read them from data/input.xlsx and data/Dji.csv)
\* ------------------------------------------------------------------------
SiteRow(id, cap) ==
    [biomass_site |-> id, longitude |-> 100 + id, latitude |-> 30 + id,
     biomass_energy |-> cap]

PlantRow(id, xi, demand, price, annuity) ==
    [Plant_ID |-> id, Longitude |-> 110 + id, Latitude |-> 40 + id,
     Installed_Capacity_Xi |-> xi, Operating_Hours |-> 5000,
     Energy_Requirement |-> demand, Coal_Price |-> price,
     Annuity_Factor |-> annuity]

RouteRow(site, plant, dist) == [biomass_site |-> site, Plant_ID |-> plant, Dji |-> dist]

\* k * 10^9 energy units
Giga(k) == RMul(Num(k), Num(10 ^ 9))

\* The input families the model runs the script on.  step is the spacing of
\* the grid on which the (continuous) flow variables are enumerated.
StdPlant(id) == PlantRow(id, Num(300), Num(500), Num(50), Dec(1, 1))

\* one site (capacity 100), one plant (demand 500, coal price 50, annuity
\* factor 0.1), one edge (distance 10)
InSingle ==
    [sites |-> <<SiteRow(1, Num(100))>>, plants |-> <<StdPlant(1)>>,
     routes |-> <<RouteRow(1, 1, Num(10))>>, step |-> Num(100)]

\* site 1 has capacity 0 and feeds both plants; plant 1 has no other source
InZeroCap ==
    [sites |-> <<SiteRow(1, Num(0)), SiteRow(2, Num(200))>>,
     plants |-> <<StdPlant(1), StdPlant(2)>>,
     routes |-> <<RouteRow(1, 1, Num(10)), RouteRow(1, 2, Num(20)), RouteRow(2, 2, Num(5))>>,
     step |-> Num(100)]

\* the only site has capacity 0
InOnlyZero ==
    [sites |-> <<SiteRow(1, Num(0))>>, plants |-> <<StdPlant(1)>>,
     routes |-> <<RouteRow(1, 1, Num(10))>>, step |-> Num(100)]

\* plant ids 2 and 10 fed by one site
InOrder ==
    [sites |-> <<SiteRow(1, Num(300))>>,
     plants |-> <<StdPlant(2), StdPlant(10)>>,
     routes |-> <<RouteRow(1, 2, Num(10)), RouteRow(1, 10, Num(20))>>,
     step |-> Num(100)]

\* quantities of the order of the 1e-6 flow filter
InTiny ==
    [sites |-> <<SiteRow(1, Dec(3, 6)), SiteRow(2, Dec(3, 6))>>,
     plants |-> <<PlantRow(1, Num(300), Dec(5, 6), Num(50), Dec(1, 1))>>,
     routes |-> <<RouteRow(1, 1, Num(10)), RouteRow(2, 1, Num(20))>>,
     step |-> Dec(5, 7)]

\* a plant with zero demand
InZeroDemand ==
    [sites |-> <<SiteRow(1, Num(100))>>,
     plants |-> <<PlantRow(1, Num(300), Num(0), Num(50), Dec(1, 1))>>,
     routes |-> <<RouteRow(1, 1, Num(10))>>, step |-> Num(100)]

\* a route naming a site that is not in the sites table
InUnknownSite ==
    [sites |-> <<SiteRow(1, Num(100))>>, plants |-> <<StdPlant(1)>>,
     routes |-> <<RouteRow(1, 1, Num(10)), RouteRow(9, 1, Num(10))>>, step |-> Num(100)]

\* a route naming a plant that is not in the plants table
InUnknownPlant ==
    [sites |-> <<SiteRow(1, Num(100))>>, plants |-> <<StdPlant(1)>>,
     routes |-> <<RouteRow(1, 1, Num(10)), RouteRow(1, 7, Num(10))>>, step |-> Num(100)]

\* a fleet whose emissions exceed the ceiling unless it blends at least 40%:
\* demand 4e10, and a site that can (2e10) or cannot (1e9) supply that
InBigForced ==
    [sites |-> <<SiteRow(1, Giga(20))>>,
     plants |-> <<PlantRow(1, Num(300), Giga(40), Num(50), Dec(1, 1))>>,
     routes |-> <<RouteRow(1, 1, Num(10))>>, step |-> Giga(8)]

InBigInfeasible ==
    [sites |-> <<SiteRow(1, Giga(1))>>,
     plants |-> <<PlantRow(1, Num(300), Giga(40), Num(50), Dec(1, 1))>>,
     routes |-> <<RouteRow(1, 1, Num(10))>>, step |-> Giga(8)]

\* the same fleet with an empty route table
InBigIsolated ==
    [sites |-> <<SiteRow(1, Giga(20))>>,
     plants |-> <<PlantRow(1, Num(300), Giga(40), Num(50), Dec(1, 1))>>,
     routes |-> <<>>, step |-> Giga(8)]

Inputs ==
    {InSingle, InZeroCap, InOnlyZero, InOrder, InTiny, InZeroDemand,
     InUnknownSite, InUnknownPlant, InBigForced, InBigInfeasible, InBigIsolated}

\* ------------------------------------------------------------------------
\* Node names: f'Collection_{id}' and f'Plant_{id}'
\* ------------------------------------------------------------------------
RECURSIVE Digits(_)
\* str(n) for a natural n, as its sequence of decimal digits
Digits(n) == IF n < 10 THEN <<n>> ELSE Digits(n \div 10) \o <<n % 10>>

CollectionName(id) == [prefix |-> "Collection_", id |-> Digits(id)]
PlantName(id) == [prefix |-> "Plant_", id |-> Digits(id)]

RECURSIVE DigitsLeq(_, _)
\* str <= str on digit strings: character by character, a proper prefix first
DigitsLeq(s, t) ==
    IF s = <<>> THEN TRUE
    ELSE IF t = <<>> THEN FALSE
    ELSE IF Head(s) # Head(t) THEN Head(s) < Head(t)
    ELSE DigitsLeq(Tail(s), Tail(t))

\* Python's str <= str on node names ('C' < 'P')
NameLeq(a, b) ==
    IF a.prefix = b.prefix THEN DigitsLeq(a.id, b.id)
    ELSE a.prefix = "Collection_"

\* ------------------------------------------------------------------------
\* The program state
\* ------------------------------------------------------------------------
VARIABLES
    pc,                 \* the statement block the script is about to run
    err,                \* the exception that ended the run, or "none"
    tables,             \* collection_points, power_plants, transport_routes (and the flow grid)
    transport_network,  \* the nx.DiGraph: [nodes, edges]
    model,              \* the LpProblem: None, or [variables, objective, constraints]
    plant_nodes,        \* line 70
    status,             \* model.status after solve
    solution,           \* the variables' varValue: None (all of them), or the assignment
    console,            \* what the script printed
    transport_df,       \* data/Plant_Transport_Allocation.xlsx: None, or [rows] as written
    cost_df             \* data/Plant_Cost.xlsx: None, or [rows] as written

vars == <<pc, err, tables, transport_network, model, plant_nodes, status, solution,
          console, transport_df, cost_df>>

\* Python's None, as a record so that it compares with the records it stands in for
None == [none |-> TRUE]

Range(s) == {s[i] : i \in DOMAIN s}

\* ------------------------------------------------------------------------
\* Network construction (lines 32-64)
\* ------------------------------------------------------------------------
EmptyGraph == [nodes |-> <<>>, edges |-> <<>>]

HasNode(g, name) == \E i \in DOMAIN g.nodes : g.nodes[i].name = name

NodeIndex(g, name) == (CHOOSE i \in DOMAIN g.nodes : g.nodes[i].name = name)

Node(g, name) == g.nodes[NodeIndex(g, name)]

\* dict.update: the new attributes override the old ones
Merge(old, new) ==
    [k \in DOMAIN old \cup DOMAIN new |-> IF k \in DOMAIN new THEN new[k] ELSE old[k]]

\* DiGraph.add_node(name, **attrs): a new node is appended, a known one updated
add_node(g, name, attrs) ==
    IF HasNode(g, name)
    THEN [g EXCEPT !.nodes[NodeIndex(g, name)] = Merge(@, attrs)]
    ELSE [g EXCEPT !.nodes = Append(@, Merge([name |-> name], attrs))]

\* DiGraph.add_edge(u, v, distance=d): an endpoint that is no node yet
\* becomes a node with no attributes; a known edge has its distance replaced
add_edge(g, u, v, d) ==
    LET g1 == IF HasNode(g, u) THEN g ELSE [g EXCEPT !.nodes = Append(@, [name |-> u])]
        g2 == IF HasNode(g1, v) THEN g1 ELSE [g1 EXCEPT !.nodes = Append(@, [name |-> v])]
        known == \E i \in DOMAIN g2.edges : g2.edges[i].src = u /\ g2.edges[i].dest = v
    IN  IF known
        THEN [g2 EXCEPT !.edges =
                 [i \in DOMAIN @ |-> IF @[i].src = u /\ @[i].dest = v
                                     THEN [@[i] EXCEPT !.distance = d] ELSE @[i]]]
        ELSE [g2 EXCEPT !.edges = Append(@, [src |-> u, dest |-> v, distance |-> d])]

RECURSIVE AddCollectionNodes(_, _)
\* lines 35-42
AddCollectionNodes(g, rows) ==
    IF rows = <<>> THEN g
    ELSE LET row == Head(rows)
         IN  AddCollectionNodes(
                 add_node(g, CollectionName(row.biomass_site),
                          [longitude |-> row.longitude, latitude |-> row.latitude,
                           capacity |-> row.biomass_energy, node_type |-> "collection"]),
                 Tail(rows))

RECURSIVE AddPlantNodes(_, _)
\* lines 45-56
AddPlantNodes(g, rows) ==
    IF rows = <<>> THEN g
    ELSE LET row == Head(rows)
         IN  AddPlantNodes(
                 add_node(g, PlantName(row.Plant_ID),
                          [longitude |-> row.Longitude, latitude |-> row.Latitude,
                           capacity |-> row.Installed_Capacity_Xi,
                           operating_hours |-> row.Operating_Hours,
                           energy_demand |-> row.Energy_Requirement,
                           coal_price |-> row.Coal_Price,
                           annuity_factor |-> row.Annuity_Factor,
                           node_type |-> "plant"]),
                 Tail(rows))

RECURSIVE AddEdges(_, _)
\* lines 59-64
AddEdges(g, rows) ==
    IF rows = <<>> THEN g
    ELSE LET row == Head(rows)
         IN  AddEdges(add_edge(g, CollectionName(row.biomass_site),
                               PlantName(row.Plant_ID), row.Dji),
                      Tail(rows))

BuildNetwork(t) ==
    AddEdges(AddPlantNodes(AddCollectionNodes(EmptyGraph, t.sites), t.plants), t.routes)

RECURSIVE EdgesFrom(_, _)
\* DiGraph.edges(): node by node in node order, each node's out-edges in the
\* order they were added
EdgesFrom(g, i) ==
    IF i > Len(g.nodes) THEN <<>>
    ELSE SelectSeq(g.edges, LAMBDA e : e.src = g.nodes[i].name) \o EdgesFrom(g, i + 1)

Edges(g) == EdgesFrom(g, 1)

EdgeKeys(g) == {<<e.src, e.dest>> : e \in Range(g.edges)}

\* DiGraph.predecessors(n), DiGraph.successors(n)
predecessors(g, n) == {e.src : e \in {x \in Range(g.edges) : x.dest = n}}
successors(g, n) == {e.dest : e \in {x \in Range(g.edges) : x.src = n}}

\* d['node_type'] raises KeyError on a node that add_edge created
HasNodeType(d) == "node_type" \in DOMAIN d

BuildGraph ==
    /\ pc = "build_graph"
    /\ transport_network' = BuildNetwork(tables)
    /\ pc' = "build_model"
    /\ UNCHANGED <<err, tables, model, plant_nodes, status, solution, console,
                   transport_df, cost_df>>

\* ------------------------------------------------------------------------
\* Model setup (lines 67-148)
\* ------------------------------------------------------------------------
\* line 70
PlantNodes(g) ==
    LET plants == SelectSeq(g.nodes, LAMBDA d : d.node_type = "plant")
    IN  [i \in DOMAIN plants |-> plants[i].name]

CollectionNodes(g) ==
    LET sites == SelectSeq(g.nodes, LAMBDA d : d.node_type = "collection")
    IN  [i \in DOMAIN sites |-> sites[i].name]

\* the constraints in the order the script adds them to the model
Constraints(g) ==
    [i \in DOMAIN PlantNodes(g) |->
        [name |-> "Demand_Fulfillment", node |-> PlantNodes(g)[i]]]
    \o [i \in DOMAIN CollectionNodes(g) |->
        [name |-> "Capacity_Limit", node |-> CollectionNodes(g)[i]]]
    \o <<[name |-> "Emission_Reduction_Target"]>>
    \o [i \in DOMAIN PlantNodes(g) |->
        [name |-> "Linearization", node |-> PlantNodes(g)[i]]]

\* LpProblem(...) of line 67: no objective, no constraints
EmptyProblem == [objective |-> "None", constraints |-> <<>>]

BuildModel ==
    /\ pc = "build_model"
    /\ IF \E d \in Range(transport_network.nodes) : ~HasNodeType(d)
       THEN \* line 67 has run, line 70 raises
            /\ model' = EmptyProblem
            /\ pc' = "crashed"
            /\ err' = "KeyError"
            /\ UNCHANGED plant_nodes
       ELSE /\ plant_nodes' = PlantNodes(transport_network)
            /\ model' = [objective |-> "transport_cost + conversion_cost",
                         constraints |-> Constraints(transport_network)]
            /\ pc' = "solve"
            /\ err' = err
    /\ UNCHANGED <<tables, transport_network, status, solution, console, transport_df,
                   cost_df>>

\* ------------------------------------------------------------------------
\* The objective's terms (lines 92-109)
\* ------------------------------------------------------------------------
\* lines 93-94, one edge
TransportCostTerm(distance, flow) ==
    RAdd(RMul(RMul(RMul(Dec(17, 4), Dec(15, 1)), distance), flow),
         RMul(Dec(2474, 3), flow))

\* lines 100-103, one plant: the annuitized conversion cost
ConversionCostTerm(data, ratio, aux) ==
    RDiv(RMul(RMul(Dec(102, 2),
                   RAdd(RMul(RMul(RMul(Num(1153000), Dec(2, 1)), Num(ratio)), data.capacity),
                        RMul(RMul(Num(4628000), aux), data.capacity))),
              data.annuity_factor),
         Dec(68589, 4))

\* line 104, one plant: the coal savings the objective subtracts
CoalSavingsTerm(data, ratio) ==
    RMul(RMul(data.coal_price, data.energy_demand), Num(ratio))

\* ------------------------------------------------------------------------
\* The constraints (lines 113-148), each as a predicate of an assignment
\* ------------------------------------------------------------------------
RECURSIVE SumOver(_, _)
\* lpSum of f[k] over the keys
SumOver(keys, f) ==
    IF keys = {} THEN Num(0)
    ELSE LET k == CHOOSE x \in keys : TRUE
         IN  RAdd(f[k], SumOver(keys \ {k}, f))

\* lines 115-119 with <= in place of ==
DemandFulfillmentAtMost(g, plant, a) ==
    RLeq(SumOver({<<src, plant>> : src \in predecessors(g, plant)}, a.shipment_flow),
         RMul(RMul(Node(g, plant).energy_demand, Num(a.biomass_ratio[plant])), Dec(2, 1)))

\* lines 115-119
DemandFulfillment(g, plant, a) ==
    REq(SumOver({<<src, plant>> : src \in predecessors(g, plant)}, a.shipment_flow),
        RMul(RMul(Node(g, plant).energy_demand, Num(a.biomass_ratio[plant])), Dec(2, 1)))

\* lines 124-128 summing over the node's predecessors in place of its successors
CapacityLimitOverPredecessors(g, node, a) ==
    RLeq(SumOver({<<src, node>> : src \in predecessors(g, node)}, a.shipment_flow),
         Node(g, node).capacity)

\* lines 124-128
CapacityLimit(g, node, a) ==
    RLeq(SumOver({<<node, dest>> : dest \in successors(g, node)}, a.shipment_flow),
         Node(g, node).capacity)

\* 3562837317 (line 136), which exceeds one machine integer
EmissionBudget == RAdd(RMul(Num(35628), Num(100000)), Num(37317))

RECURSIVE EmissionSum(_, _, _)
\* lines 132-135
EmissionSum(g, plants, a) ==
    IF plants = <<>> THEN Num(0)
    ELSE RAdd(RMul(RMul(Dec(901, 4), Node(g, Head(plants)).energy_demand),
                   RSub(Num(1), RMul(Dec(2, 1), Num(a.biomass_ratio[Head(plants)])))),
              EmissionSum(g, Tail(plants), a))

\* lines 131-138
EmissionReductionTarget(g, a) ==
    RLeq(EmissionSum(g, PlantNodes(g), a), RMul(Dec(65, 2), EmissionBudget))

\* line 141: M = 1e12
M == RMul(Num(10 ^ 6), Num(10 ^ 6))

\* line 144:  0.2 * ratio <= 0.2 + M * flag
LinRatioUpper(ratio, flag, aux) ==
    RLeq(RMul(Dec(2, 1), Num(ratio)), RAdd(Dec(2, 1), RMul(M, Num(flag))))

\* line 145 with the threshold 0.2 in place of 0.21
LinRatioLowerAtTwenty(ratio, flag, aux) ==
    RLeq(Dec(2, 1), RAdd(RMul(Dec(2, 1), Num(ratio)), RMul(M, Num(1 - flag))))

\* line 145:  0.2 * ratio >= 0.21 - M * (1 - flag)
LinRatioLower(ratio, flag, aux) ==
    RLeq(Dec(21, 2), RAdd(RMul(Dec(2, 1), Num(ratio)), RMul(M, Num(1 - flag))))

\* line 146 gated by flag in place of 1 - flag
LinAuxLowerWrongGate(ratio, flag, aux) ==
    RLeq(RMul(Dec(2, 1), Num(ratio)), RAdd(aux, RMul(M, Num(flag))))

\* line 146:  aux >= 0.2 * ratio - M * (1 - flag)
LinAuxLower(ratio, flag, aux) ==
    RLeq(RMul(Dec(2, 1), Num(ratio)), RAdd(aux, RMul(M, Num(1 - flag))))

\* line 147:  aux <= 0.2 * ratio + M * (1 - flag)
LinAuxUpper(ratio, flag, aux) ==
    RLeq(aux, RAdd(RMul(Dec(2, 1), Num(ratio)), RMul(M, Num(1 - flag))))

\* line 148 without the flag
LinAuxGateNoFlag(ratio, flag, aux) ==
    RLeq(aux, M)

\* line 148:  aux <= M * flag
LinAuxGate(ratio, flag, aux) ==
    RLeq(aux, RMul(M, Num(flag)))

\* lines 144-148, one plant
Linearization(ratio, flag, aux) ==
    /\ LinRatioUpper(ratio, flag, aux)
    /\ LinRatioLower(ratio, flag, aux)
    /\ LinAuxLower(ratio, flag, aux)
    /\ LinAuxUpper(ratio, flag, aux)
    /\ LinAuxGate(ratio, flag, aux)

\* the variables' domains (lines 73-88)
RatioDomain == 0 .. 5
FlagDomain == {0, 1}
InAuxDomain(aux) == RLeq(Num(0), aux) /\ RLeq(aux, Num(1))

\* one constraint of the model on an assignment
Holds(g, c, a) ==
    CASE c.name = "Demand_Fulfillment" -> DemandFulfillment(g, c.node, a)
      [] c.name = "Capacity_Limit" -> CapacityLimit(g, c.node, a)
      [] c.name = "Emission_Reduction_Target" -> EmissionReductionTarget(g, a)
      [] c.name = "Linearization" ->
            Linearization(a.biomass_ratio[c.node], a.retrofit_flag[c.node],
                          a.auxiliary_var[c.node])

\* an assignment the solver may return: in the domains, every constraint met
Satisfies(g, m, a) ==
    /\ \A p \in Range(PlantNodes(g)) :
          /\ a.biomass_ratio[p] \in RatioDomain
          /\ a.retrofit_flag[p] \in FlagDomain
          /\ InAuxDomain(a.auxiliary_var[p])
    /\ \A i \in DOMAIN m.constraints : Holds(g, m.constraints[i], a)

\* ------------------------------------------------------------------------
\* The solver (line 152).  The continuous variables are enumerated on grids:
\* the auxiliary variable in steps of 0.05, each flow in multiples of the
\* input family's step.
\* ------------------------------------------------------------------------
AuxSteps == 20
MaxFlowSteps == 6

AuxGrid == {Dec(5 * k, 2) : k \in 0 .. AuxSteps}

\* per blending level, the (flag, aux) pairs the linearization block admits
GateTable ==
    [ratio \in RatioDomain |->
        {fa \in FlagDomain \X {x \in AuxGrid : InAuxDomain(x)} :
            Linearization(ratio, fa[1], fa[2])}]

FlowChoices(g, step) ==
    {[e \in EdgeKeys(g) |-> RMul(Num(k[e]), step)] :
        k \in [EdgeKeys(g) -> 0 .. MaxFlowSteps]}

\* the grid assignments that satisfy the model; the enumeration goes flows,
\* then levels, then gates, and Satisfies decides
Feasible(g, m, step) ==
    LET P == Range(PlantNodes(g))
        sites == Range(CollectionNodes(g))
        flows == {fl \in FlowChoices(g, step) :
                     \A n \in sites : CapacityLimit(g, n, [shipment_flow |-> fl])}
        levels(fl) == {r \in [P -> RatioDomain] :
                          \A p \in P : DemandFulfillment(g, p,
                                          [shipment_flow |-> fl, biomass_ratio |-> r])}
        gates(r) == {fa \in [P -> UNION {GateTable[l] : l \in RatioDomain}] :
                        \A p \in P : fa[p] \in GateTable[r[p]]}
        cands == UNION {UNION {{[biomass_ratio |-> r,
                                 retrofit_flag |-> [p \in P |-> fa[p][1]],
                                 auxiliary_var |-> [p \in P |-> fa[p][2]],
                                 shipment_flow |-> fl] : fa \in gates(r)}
                               : r \in levels(fl)}
                        : fl \in flows}
    IN  {a \in cands : Satisfies(g, m, a)}

\* a solver that writes its last point back although it found no solution
ValuesLeftBehind(g) ==
    [biomass_ratio |-> [p \in Range(PlantNodes(g)) |-> 0],
     retrofit_flag |-> [p \in Range(PlantNodes(g)) |-> 0],
     auxiliary_var |-> [p \in Range(PlantNodes(g)) |-> Num(0)],
     shipment_flow |-> [e \in EdgeKeys(g) |-> Num(1)]]

\* what the variables hold after a solve that found no solution: GUROBI_CMD
\* assigns no values, every varValue stays None (solution = None)
ValuesWithoutSolution(g) == None

\* line 156
PrintStatus(st) == Append(console, [line |-> "Solution status", value |-> st])

\* the solver returns a solution within the gap
SolveOptimal ==
    /\ pc = "solve"
    /\ \E a \in Feasible(transport_network, model, tables.step) :
          solution' = a
    /\ status' = "Optimal"
    /\ console' = PrintStatus("Optimal")
    /\ pc' = "decode_transport"
    /\ UNCHANGED <<err, tables, transport_network, model, plant_nodes, transport_df, cost_df>>

\* the model has no solution: the solver reports it and assigns nothing
SolveNoSolution ==
    /\ pc = "solve"
    /\ Feasible(transport_network, model, tables.step) = {}
    /\ \E st \in {"Infeasible", "Not Solved", "Undefined"} :
          /\ status' = st
          /\ console' = PrintStatus(st)
    /\ solution' = ValuesWithoutSolution(transport_network)
    /\ pc' = "decode_transport"
    /\ UNCHANGED <<err, tables, transport_network, model, plant_nodes, transport_df, cost_df>>

\* the solver cannot be run (no licence, no binary): solve raises
SolveError ==
    /\ pc = "solve"
    /\ pc' = "crashed"
    /\ err' = "PulpSolverError"
    /\ UNCHANGED <<tables, transport_network, model, plant_nodes, status, solution,
                   console, transport_df, cost_df>>

\* ------------------------------------------------------------------------
\* Results processing (lines 160-198)
\* ------------------------------------------------------------------------
\* line 163: flow > 1e-6
AboveEpsilon(flow) == RLt(Dec(1, 6), flow)

\* lines 164-173
TransportRow(g, e, flow) ==
    [Source |-> e.src, Destination |-> e.dest, Flow |-> flow,
     Source_Lon |-> Node(g, e.src).longitude, Source_Lat |-> Node(g, e.src).latitude,
     Dest_Lon |-> Node(g, e.dest).longitude, Dest_Lat |-> Node(g, e.dest).latitude,
     TonKm |-> RMul(e.distance, flow)]

RECURSIVE TransportResults(_, _, _)
\* lines 160-173, over the edges in DiGraph.edges() order
TransportResults(g, edges, a) ==
    IF edges = <<>> THEN <<>>
    ELSE LET e == Head(edges)
             flow == a.shipment_flow[<<e.src, e.dest>>]
         IN  (IF AboveEpsilon(flow) THEN <<TransportRow(g, e, flow)>> ELSE <<>>)
             \o TransportResults(g, Tail(edges), a)

\* rows ordered by the Destination column, compared as strings
SortedByDestination(rows) ==
    \A i, j \in DOMAIN rows : i < j => NameLeq(rows[i].Destination, rows[j].Destination)

\* DataFrame.sort_values(by='Destination'): the default sort is not stable,
\* so any ordering of the rows that is sorted by the column may come out
SortValues(rows) ==
    {sorted \in {[i \in DOMAIN rows |-> rows[f[i]]] :
                    f \in {h \in [DOMAIN rows -> DOMAIN rows] :
                              \A i, j \in DOMAIN rows : i # j => h[i] # h[j]}} :
        SortedByDestination(sorted)}

\* lines 160-176
DecodeTransport ==
    /\ pc = "decode_transport"
    /\ LET edges == Edges(transport_network)
       IN  IF edges # <<>> /\ solution = None
           THEN \* line 163: None > 1e-6
                /\ pc' = "crashed"
                /\ err' = "TypeError"
                /\ UNCHANGED transport_df
           ELSE LET rows == IF edges = <<>> THEN <<>>
                            ELSE TransportResults(transport_network, edges, solution)
                IN  IF rows = <<>>
                    THEN \* line 175: a DataFrame of no rows has no column 'Destination'
                         /\ pc' = "crashed"
                         /\ err' = "KeyError"
                         /\ UNCHANGED transport_df
                    ELSE /\ \E sorted \in SortValues(rows) : transport_df' = [rows |-> sorted]
                         /\ pc' = "decode_costs"
                         /\ err' = err
    /\ UNCHANGED <<tables, transport_network, model, plant_nodes, status, solution,
                   console, cost_df>>

\* lines 188-189
CapitalCost(data, ratio, aux) ==
    RDiv(RMul(RMul(data.capacity,
                   RAdd(RMul(RMul(Num(1153000), Dec(2, 1)), Num(ratio)),
                        RMul(Num(4628000), aux))),
              data.annuity_factor),
         Dec(68589, 4))

\* lines 190-191
OMCost(data, ratio, aux) ==
    RDiv(RMul(RMul(RMul(Dec(2, 2), data.capacity),
                   RMul(RMul(Num(1153000), Dec(2, 1)), Num(ratio))),
              data.annuity_factor),
         Dec(68589, 4))

\* line 192
CoalSavings(data, ratio, aux) ==
    RMul(RMul(data.coal_price, data.energy_demand), Num(ratio))

\* lines 182-193
CostBreakdown(g, plant, a) ==
    LET data == Node(g, plant)
        ratio == a.biomass_ratio[plant]
        aux == a.auxiliary_var[plant]
    IN  [Plant |-> plant,
         BlendingRatio |-> RMul(Dec(2, 1), Num(ratio)),
         RetrofitDecision |-> a.retrofit_flag[plant],
         AuxVariable |-> aux,
         CapitalCost |-> CapitalCost(data, ratio, aux),
         OMCost |-> OMCost(data, ratio, aux),
         CoalSavings |-> CoalSavings(data, ratio, aux)]

\* lines 179-194
CostAnalysis(g, a) ==
    [i \in DOMAIN PlantNodes(g) |-> CostBreakdown(g, PlantNodes(g)[i], a)]

\* lines 179-196
DecodeCosts ==
    /\ pc = "decode_costs"
    /\ IF PlantNodes(transport_network) # <<>> /\ solution = None
       THEN \* line 182: 0.2 * None
            /\ pc' = "crashed"
            /\ err' = "TypeError"
            /\ UNCHANGED cost_df
       ELSE /\ cost_df' = [rows |-> IF solution = None THEN <<>>
                                     ELSE CostAnalysis(transport_network, solution)]
            /\ pc' = "print_objective"
            /\ err' = err
    /\ UNCHANGED <<tables, transport_network, model, plant_nodes, status, solution,
                   console, transport_df>>

RECURSIVE TransportCost(_, _)
\* lines 92-96
TransportCost(edges, a) ==
    IF edges = <<>> THEN Num(0)
    ELSE RAdd(TransportCostTerm(Head(edges).distance,
                                a.shipment_flow[<<Head(edges).src, Head(edges).dest>>]),
              TransportCost(Tail(edges), a))

RECURSIVE ConversionCost(_, _, _)
\* lines 99-107, the costs the objective adds
ConversionCost(g, plants, a) ==
    IF plants = <<>> THEN Num(0)
    ELSE RAdd(ConversionCostTerm(Node(g, Head(plants)), a.biomass_ratio[Head(plants)],
                                 a.auxiliary_var[Head(plants)]),
              ConversionCost(g, Tail(plants), a))

RECURSIVE CoalSavingsTotal(_, _, _)
\* lines 99-107, the savings the objective subtracts
CoalSavingsTotal(g, plants, a) ==
    IF plants = <<>> THEN Num(0)
    ELSE RAdd(CoalSavingsTerm(Node(g, Head(plants)), a.biomass_ratio[Head(plants)]),
              CoalSavingsTotal(g, Tail(plants), a))

\* value(model.objective), as the costs added and the savings subtracted
ObjectiveValue(g, a) ==
    [costs |-> RAdd(TransportCost(Edges(g), a), ConversionCost(g, PlantNodes(g), a)),
     savings |-> CoalSavingsTotal(g, PlantNodes(g), a)]

\* line 198
PrintObjective ==
    /\ pc = "print_objective"
    /\ console' = Append(console, [line |-> "Minimum total cost",
                                   value |-> ObjectiveValue(transport_network, solution)])
    /\ pc' = "done"
    /\ UNCHANGED <<err, tables, transport_network, model, plant_nodes, status, solution,
                   transport_df, cost_df>>

\* ------------------------------------------------------------------------
\* The script
\* ------------------------------------------------------------------------
Init ==
    /\ pc = "build_graph"
    /\ err = "none"
    /\ tables \in Inputs
    /\ transport_network = None
    /\ model = None
    /\ plant_nodes = <<>>
    /\ status = "Not Solved"
    /\ solution = None
    /\ console = <<>>
    /\ transport_df = None
    /\ cost_df = None

Next ==
    \/ BuildGraph
    \/ BuildModel
    \/ SolveOptimal
    \/ SolveNoSolution
    \/ SolveError
    \/ DecodeTransport
    \/ DecodeCosts
    \/ PrintObjective

Spec == Init /\ [][Next]_vars

\* ------------------------------------------------------------------------
\* Properties
\* ------------------------------------------------------------------------
Solved == status = "Optimal" /\ solution # None

Plants == Range(PlantNodes(transport_network))
Level(p) == solution.biomass_ratio[p]
Flag(p) == solution.retrofit_flag[p]
Aux(p) == solution.auxiliary_var[p]
Flow(src, dest) == solution.shipment_flow[<<src, dest>>]
LevelFraction(p) == RMul(Dec(2, 1), Num(Level(p)))

C3_AuxIsLevelGatedByFlag ==
    Solved => \A p \in Plants :
        REq(Aux(p), IF Flag(p) = 1 THEN LevelFraction(p) ELSE Num(0))

\* a solved assignment with a retrofitted plant at level 3 (auxiliary 0.6)
C3_Witness ==
    /\ Solved
    /\ \E p \in Plants : Flag(p) = 1 /\ Level(p) = 3 /\ REq(Aux(p), Dec(6, 1))

\* a route names a site or a plant that its table does not hold
UnknownIds(t) ==
    \E i \in DOMAIN t.routes :
        \/ \A j \in DOMAIN t.sites : t.sites[j].biomass_site # t.routes[i].biomass_site
        \/ \A j \in DOMAIN t.plants : t.plants[j].Plant_ID # t.routes[i].Plant_ID

\* C4 as stated: no node without a node kind is ever in the graph, and when
\* a route names an unknown id the run ends in network construction with a
\* ReferenceError, no graph and no model.
C4_UnknownIdFailsAtGraphBuild ==
    /\ transport_network # None =>
          \A d \in Range(transport_network.nodes) : HasNodeType(d)
    /\ (UnknownIds(tables) /\ pc # "build_graph") =>
          /\ pc = "crashed"
          /\ err = "ReferenceError"
          /\ transport_network = None
          /\ model = None

\* the script has passed line 156
AfterSolve ==
    \/ pc \in {"decode_transport", "decode_costs", "print_objective", "done"}
    \/ pc = "crashed" /\ model # None /\ model # EmptyProblem /\ err # "PulpSolverError"

RECURSIVE ParseInt(_)
\* int(s) of a digit string
ParseInt(ds) == IF ds = <<>> THEN 0 ELSE 10 * ParseInt(SubSeq(ds, 1, Len(ds) - 1)) + ds[Len(ds)]

\* the rows of the transport report are the edges with flow above 1e-6,
\* one row each, with TonKm = distance x flow
RowsAreTheShipments(rows) ==
    LET g == transport_network
        shipped == {e \in Range(g.edges) : RLt(Dec(1, 6), Flow(e.src, e.dest))}
    IN  /\ Len(rows) = Cardinality(shipped)
        /\ \A e \in shipped :
              \E i \in DOMAIN rows :
                  /\ rows[i].Source = e.src /\ rows[i].Destination = e.dest
                  /\ rows[i].Flow = Flow(e.src, e.dest)
                  /\ REq(rows[i].TonKm, RMul(e.distance, Flow(e.src, e.dest)))
                  /\ \A j \in DOMAIN rows :
                        (rows[j].Source = e.src /\ rows[j].Destination = e.dest) => j = i

\* the script has passed line 176 or ended before it
TransportDecoded ==
    \/ pc \in {"decode_costs", "print_objective", "done"}
    \/ pc = "crashed" /\ AfterSolve

\* C6 as stated: once a solved assignment's transport report has been
\* decoded, the report holds one row per edge with flow above 1e-6 and none
\* for the others, TonKm = distance x flow, and its rows are in
\* non-decreasing order of the destination plant id.
C6_TransportReport ==
    (Solved /\ TransportDecoded) =>
        /\ transport_df # None
        /\ RowsAreTheShipments(transport_df.rows)
        /\ \A i, j \in DOMAIN transport_df.rows :
              i < j => ParseInt(transport_df.rows[i].Destination.id)
                          <= ParseInt(transport_df.rows[j].Destination.id)

\* What the script does guarantee: a report that was written holds exactly
\* the shipments, in non-decreasing order of the Destination node name
\* 'Plant_<id>' compared as a string.
WrittenReportIsSortedByName ==
    transport_df # None =>
        /\ RowsAreTheShipments(transport_df.rows)
        /\ SortedByDestination(transport_df.rows)

\* C7 as stated: in a written cost report, each plant's CapitalCost plus
\* O&MCost is the objective's annuitized conversion-cost term and its
\* CoalSavings is the objective's coal-savings term.
C7_ReportUsesObjectiveCoefficients ==
    cost_df # None =>
        \A i \in DOMAIN cost_df.rows :
            LET row == cost_df.rows[i]
                data == Node(transport_network, row.Plant)
            IN  /\ REq(RAdd(row.CapitalCost, row.OMCost),
                       ConversionCostTerm(data, Level(row.Plant), Aux(row.Plant)))
                /\ REq(row.CoalSavings, CoalSavingsTerm(data, Level(row.Plant)))

SingleSite == CollectionName(1)
SinglePlant == PlantName(1)

\* C8: on the one-site, one-plant, one-edge input every solved assignment
\* has flow = 100 x level, flow <= 100 and level 0 or 1.
C8_SingleEdgeScenario ==
    (tables = InSingle /\ Solved) =>
        /\ REq(Flow(SingleSite, SinglePlant), RMul(Num(100), Num(Level(SinglePlant))))
        /\ RLeq(Flow(SingleSite, SinglePlant), Num(100))
        /\ Level(SinglePlant) \in {0, 1}

\* the scenario solved at level 1 with flow 100
C8_Witness ==
    /\ tables = InSingle /\ Solved
    /\ Level(SinglePlant) = 1
    /\ REq(Flow(SingleSite, SinglePlant), Num(100))

ZeroCapacitySites ==
    {d.name : d \in {x \in Range(transport_network.nodes) :
                        x.node_type = "collection" /\ REq(x.capacity, Num(0))}}

\* C9: in every solved assignment each edge out of a zero-capacity site has
\* flow 0, and a plant with positive demand all of whose inbound edges come
\* from zero-capacity sites has level 0.
C9_ZeroCapacityShipsNothing ==
    Solved =>
        /\ \A s \in ZeroCapacitySites :
              \A dest \in successors(transport_network, s) : REq(Flow(s, dest), Num(0))
        /\ \A p \in Plants :
              (/\ RLt(Num(0), Node(transport_network, p).energy_demand)
               /\ predecessors(transport_network, p) \subseteq ZeroCapacitySites)
              => Level(p) = 0

\* a solved assignment in which a zero-capacity site with two outbound edges
\* ships nothing, its only customer stays at level 0 and another plant blends
C9_Witness ==
    /\ Solved
    /\ \E s \in ZeroCapacitySites :
          /\ Cardinality(successors(transport_network, s)) = 2
          /\ \E p, q \in Plants :
                /\ predecessors(transport_network, p) = {s} /\ Level(p) = 0
                /\ s \in predecessors(transport_network, q) /\ Level(q) = 2

\* no edge carries a flow above 1e-6
NothingShipped ==
    \A e \in Range(transport_network.edges) : ~RLt(Dec(1, 6), Flow(e.src, e.dest))

\* C10 as stated: after a solve that returned a solution, decoding does not
\* abort; with no flow above 1e-6 the transport report is written with zero
\* rows and the cost report then holds one row per plant node.
C10_DecodingCompletes ==
    Solved =>
        /\ pc # "crashed"
        /\ (NothingShipped /\ pc \in {"decode_costs", "print_objective", "done"})
              => transport_df = [rows |-> <<>>]
        /\ (NothingShipped /\ pc \in {"print_objective", "done"})
              => cost_df # None /\ Len(cost_df.rows) = Len(plant_nodes)

====
